---- MODULE Spec2Model ----
(***************************************************************************)
(* Model of the summary store (src/utils/db_handler.py, DatabaseHandler)   *)
(* and of the Streamlit script run that uses it (src/main.py, main).       *)
(*                                                                         *)
(* The Supabase table video_summaries is the variable rows, in insertion   *)
(* order.  Every request the handler sends (the probe of                   *)
(* verify_connection, the insert, the two selects) gets a response chosen  *)
(* by the environment: the request raises, the response object has no      *)
(* data attribute, or it carries data.                                     *)
(***************************************************************************)
EXTENDS Integers, Sequences, FiniteSets, TLC

VARIABLES rows, nextId, last, saved, failed, pc, session, run

vars == <<rows, nextId, last, saved, failed, pc, session, run>>

(* ------------------------------ bounds --------------------------------- *)
MaxRows == 2
MaxTime == 1
MaxLimit == 2

(* ------------------------- values of the model ------------------------- *)
Keys == {"id", "video_id", "title", "summary", "language", "timestamp", "source_urls"}

(* datetime keeps microseconds; a time is a count of microseconds. *)
MicrosPerSecond == 1000 * 1000

Times == 0..MaxTime
Limits == 1..MaxLimit
Languages == {"", "en", "EN"}
ProbeResponses == {"data", "nodata", "raise"}
SelectResponses == {"data", "nodata", "raise"}
InsertResponses == {"rows", "empty", "nodata", "raise"}

(* Argument tuples of save_summary: every field differs between the two. *)
SaveArgs ==
  { [video_id |-> "v1", title |-> "t1", summary |-> "s1", language |-> "en", source_urls |-> "u1"],
    [video_id |-> "v2", title |-> "t2", summary |-> "s2", language |-> "", source_urls |-> "u2"] }

(* isoformat(timespec='seconds'): the microseconds are dropped. *)
isoformat_seconds(t) == <<t \div MicrosPerSecond>>

(* datetime.isoformat(): the fraction is omitted when microsecond is 0. *)
isoformat(t) ==
  LET sec == t \div MicrosPerSecond
      us == t % MicrosPerSecond
  IN IF us = 0 THEN <<sec>> ELSE <<sec, us>>

(* datetime.fromisoformat() of a string isoformat() wrote. *)
fromisoformat(s) ==
  IF Len(s) = 1 THEN s[1] * MicrosPerSecond ELSE s[1] * MicrosPerSecond + s[2]

(* The dict save_summary sends to insert: the arguments and the handler's clock. *)
SaveData(a, now) ==
  [video_id |-> a.video_id, title |-> a.title, summary |-> a.summary,
   language |-> a.language, source_urls |-> a.source_urls,
   timestamp |-> isoformat(now)]

(* A row as the backend returns it: the columns, the set of keys that are  *)
(* absent from the returned dict and the set of keys whose value is null.  *)
StoredRow(id, data) ==
  [id |-> id, video_id |-> data.video_id, title |-> data.title, summary |-> data.summary,
   language |-> data.language, timestamp |-> data.timestamp,
   source_urls |-> data.source_urls, absent |-> {}, null |-> {}]

WellFormed(item) == item.absent = {} /\ item.null = {}

(* A VideoSummary: the constructor's fields; none holds the keys whose     *)
(* value was None (item.get returns the null as it is).                    *)
VideoSummary(item) ==
  [id |-> item.id, video_id |-> item.video_id, title |-> item.title,
   summary |-> item.summary, language |-> item.language,
   timestamp |-> fromisoformat(item.timestamp),
   source_urls |-> item.source_urls, none |-> item.null]

(* ----------------------------- the backend ----------------------------- *)
(* The same select with desc=False. *)
RecentQuery_ascending(limit) ==
  [filter |-> FALSE, language |-> "", order |-> "timestamp", desc |-> FALSE, limit |-> limit]

(* The select get_recent_summaries builds. *)
RecentQuery(limit) ==
  [filter |-> FALSE, language |-> "", order |-> "timestamp", desc |-> TRUE, limit |-> limit]

(* The select without desc=True, and the select without .eq('language', ...). *)
LanguageQuery_ascending(language, limit) ==
  [filter |-> TRUE, language |-> language, order |-> "timestamp", desc |-> FALSE, limit |-> limit]

LanguageQuery_unfiltered(language, limit) ==
  [filter |-> FALSE, language |-> language, order |-> "timestamp", desc |-> TRUE, limit |-> limit]

(* The select get_summaries_by_language builds. *)
LanguageQuery(language, limit) ==
  [filter |-> TRUE, language |-> language, order |-> "timestamp", desc |-> TRUE, limit |-> limit]

HasValue(item, key) == key \notin item.absent /\ key \notin item.null

(* .eq('language', x): exact match; a null never equals anything. *)
Matches(q, item) ==
  ~q.filter \/ (HasValue(item, "language") /\ item.language = q.language)

(* .order('timestamp', desc=True): a before b is allowed.  Nulls sort      *)
(* first in a descending order; equal timestamps may come in any order.    *)
MayPrecede(q, a, b) ==
  IF ~HasValue(a, "timestamp") THEN TRUE
  ELSE IF ~HasValue(b, "timestamp") THEN FALSE
  ELSE IF q.desc THEN fromisoformat(a.timestamp) >= fromisoformat(b.timestamp)
  ELSE fromisoformat(a.timestamp) <= fromisoformat(b.timestamp)

Min(a, b) == IF a < b THEN a ELSE b

(* Every response.data the backend may return for the query q. *)
SelectResults(q, table) ==
  LET idx == {i \in 1..Len(table) : Matches(q, table[i])}
      n == Cardinality(idx)
      perms == {p \in [1..n -> idx] :
                  /\ \A i, j \in 1..n : i # j => p[i] # p[j]
                  /\ \A i, j \in 1..n : i < j => MayPrecede(q, table[p[i]], table[p[j]])}
  IN {[i \in 1..Min(q.limit, n) |-> table[p[i]]] : p \in perms}

(* ----------------------------- the handler ----------------------------- *)
(* A handler that remembers a failed call and refuses from then on. *)
verify_connection_sticky(probe) == probe = "data" /\ ~failed

(* verify_connection: True exactly when the probe's response has data;     *)
(* an exception of the probe is caught and gives False.                    *)
verify_connection(probe) == probe = "data"

Raise(issued) == [kind |-> "raise", ok |-> FALSE, list |-> <<>>, issued |-> issued]
ReturnBool(b, issued) == [kind |-> "return", ok |-> b, list |-> <<>>, issued |-> issued]
ReturnList(l, issued) == [kind |-> "return", ok |-> FALSE, list |-> l, issued |-> issued]

(* save_summary without the check of the probe's result. *)
save_summary_unchecked(probe, resp) ==
  IF resp = "raise" THEN Raise(<<"probe", "insert">>)
  ELSE IF resp = "rows" THEN ReturnBool(TRUE, <<"probe", "insert">>)
  ELSE ReturnBool(FALSE, <<"probe", "insert">>)

(* save_summary: the try block, then the except clause that raises again. *)
save_summary(probe, resp) ==
  LET body ==
        IF ~verify_connection(probe) THEN Raise(<<"probe">>)
        ELSE IF resp = "raise" THEN Raise(<<"probe", "insert">>)
        ELSE IF resp = "rows" THEN ReturnBool(TRUE, <<"probe", "insert">>)
        ELSE ReturnBool(FALSE, <<"probe", "insert">>)
  IN IF body.kind = "raise" THEN Raise(body.issued) ELSE body

(* The filter of the list comprehension: every key is in the item. *)
AllKeysIn(item) == \A key \in Keys : key \notin item.absent

(* The list comprehension raises when fromisoformat gets None. *)
ComprehensionRaises(data) ==
  \E i \in 1..Len(data) : AllKeysIn(data[i]) /\ "timestamp" \in data[i].null

Comprehension(data) ==
  LET kept == SelectSeq(data, AllKeysIn)
  IN [i \in 1..Len(kept) |-> VideoSummary(kept[i])]

(* get_recent_summaries with an except clause that raises again. *)
get_recent_summaries_raising(probe, resp, data) ==
  IF ~verify_connection(probe) THEN ReturnList(<<>>, <<"probe">>)
  ELSE IF resp = "raise" THEN Raise(<<"probe", "select">>)
  ELSE IF resp = "nodata" THEN ReturnList(<<>>, <<"probe", "select">>)
  ELSE IF ComprehensionRaises(data) THEN Raise(<<"probe", "select">>)
  ELSE ReturnList(Comprehension(data), <<"probe", "select">>)

(* get_recent_summaries: the try block, then the except clause returning []. *)
get_recent_summaries(probe, resp, data) ==
  LET body ==
        IF ~verify_connection(probe) THEN ReturnList(<<>>, <<"probe">>)
        ELSE IF resp = "raise" THEN Raise(<<"probe", "select">>)
        ELSE IF resp = "nodata" THEN ReturnList(<<>>, <<"probe", "select">>)
        ELSE IF ComprehensionRaises(data) THEN Raise(<<"probe", "select">>)
        ELSE ReturnList(Comprehension(data), <<"probe", "select">>)
  IN IF body.kind = "raise" THEN ReturnList(<<>>, body.issued) ELSE body

(* get_summaries_by_language: the same text with the other query. *)
get_summaries_by_language(probe, resp, data) ==
  LET body ==
        IF ~verify_connection(probe) THEN ReturnList(<<>>, <<"probe">>)
        ELSE IF resp = "raise" THEN Raise(<<"probe", "select">>)
        ELSE IF resp = "nodata" THEN ReturnList(<<>>, <<"probe", "select">>)
        ELSE IF ComprehensionRaises(data) THEN Raise(<<"probe", "select">>)
        ELSE ReturnList(Comprehension(data), <<"probe", "select">>)
  IN IF body.kind = "raise" THEN ReturnList(<<>>, body.issued) ELSE body

(* ------------------- calls on a constructed handler -------------------- *)
NoArgs == [video_id |-> "", title |-> "", summary |-> "", language |-> "", source_urls |-> ""]

(* The record of a call that has just ended: what was asked, what the      *)
(* backend answered, the table before the call, whether an earlier call    *)
(* had failed, and how the call ended.                                     *)
NoCall ==
  [op |-> "none", args |-> NoArgs, language |-> "", limit |-> 0, now |-> 0,
   probe |-> "none", resp |-> "none", data |-> <<>>, before |-> <<>>,
   afterFailure |-> FALSE,
   kind |-> "return", ok |-> FALSE, list |-> <<>>, issued |-> <<>>]

Sent(out, request) == request \in {out.issued[i] : i \in 1..Len(out.issued)}

Call(op, args, language, limit, now, probe, resp, data, out) ==
  LET answered == Sent(out, "insert") \/ Sent(out, "select")
  IN [op |-> op, args |-> args, language |-> language, limit |-> limit,
      now |-> IF Sent(out, "insert") THEN now ELSE 0,
      probe |-> IF Sent(out, "probe") THEN probe ELSE "none",
      resp |-> IF answered THEN resp ELSE "none",
      data |-> IF Sent(out, "select") /\ resp = "data" THEN data ELSE <<>>,
      before |-> rows,
      afterFailure |-> failed,
      kind |-> out.kind, ok |-> out.ok, list |-> out.list, issued |-> out.issued]

(* A call found the backend unavailable. *)
Unavailable(c) ==
  \/ c.probe \in {"nodata", "raise"}
  \/ c.resp \in {"nodata", "raise", "empty"}

Malformed(table) == {i \in 1..Len(table) : ~WellFormed(table[i])}

NoSaved == [id |-> 0, args |-> NoArgs, now |-> 0]

(* verify_connection called by itself. *)
Verify ==
  /\ last = NoCall
  /\ \E probe \in ProbeResponses :
       /\ last' = Call("verify", NoArgs, "", 0, 0, probe, "none", <<>>,
                       ReturnBool(verify_connection(probe), <<"probe">>))
       /\ failed' = (failed \/ Unavailable(last'))
  /\ UNCHANGED <<rows, nextId, saved, pc, session, run>>

(* What the backend does with an insert it received: it stores the row     *)
(* when it answers with the row; when it answers without data the row may  *)
(* or may not be there; an insert that raises stores nothing.              *)
Inserted(table, id, data, out, resp, stored) ==
  IF Sent(out, "insert") /\ (resp = "rows" \/ (resp \in {"empty", "nodata"} /\ stored))
  THEN Append(table, StoredRow(id, data))
  ELSE table

SaveCall(a, now, probe, resp, stored) ==
  LET out == save_summary(probe, resp)
  IN /\ rows' = Inserted(rows, nextId, SaveData(a, now), out, resp, stored)
     /\ nextId' = IF rows' = rows THEN nextId ELSE nextId + 1
     /\ last' = Call("save", a, "", 0, now, probe, resp, <<>>, out)
     /\ saved' = IF out.kind = "return" /\ out.ok
                 THEN [id |-> nextId, args |-> a, now |-> now]
                 ELSE IF rows' = rows THEN saved ELSE NoSaved
     /\ failed' = (failed \/ Unavailable(last'))

Save ==
  /\ last = NoCall
  /\ Len(rows) < MaxRows
  /\ \E a \in SaveArgs, now \in Times, probe \in ProbeResponses,
        resp \in InsertResponses, stored \in BOOLEAN :
       SaveCall(a, now, probe, resp, stored)
  /\ UNCHANGED <<pc, session, run>>

Recent ==
  /\ last = NoCall
  /\ \E limit \in Limits, probe \in ProbeResponses, resp \in SelectResponses :
       \E data \in SelectResults(RecentQuery(limit), rows) :
         /\ last' = Call("recent", NoArgs, "", limit, 0, probe, resp, data,
                         get_recent_summaries(probe, resp, data))
         /\ failed' = (failed \/ Unavailable(last'))
  /\ UNCHANGED <<rows, nextId, saved, pc, session, run>>

ByLanguageCall(language, limit, probe, resp) ==
  \E data \in SelectResults(LanguageQuery(language, limit), rows) :
    /\ last' = Call("bylang", NoArgs, language, limit, 0, probe, resp, data,
                    get_summaries_by_language(probe, resp, data))
    /\ failed' = (failed \/ Unavailable(last'))

ByLanguage ==
  /\ last = NoCall
  /\ \E language \in Languages, limit \in Limits,
        probe \in ProbeResponses, resp \in SelectResponses :
       ByLanguageCall(language, limit, probe, resp)
  /\ UNCHANGED <<rows, nextId, saved, pc, session, run>>

(* The caller takes the result of the call and goes on. *)
Resume ==
  /\ last # NoCall
  /\ last' = NoCall
  /\ UNCHANGED <<rows, nextId, saved, failed, pc, session, run>>

(* Another writer of the shared table stores a row in which one column is  *)
(* null, or which the backend returns without one of the keys.  The table  *)
(* holds at most one such row.                                             *)
DefectiveRow(id, data, key, how) ==
  LET r == StoredRow(id, data)
      blank == [r EXCEPT ![key] = IF key = "id" THEN 0
                                  ELSE IF key = "timestamp" THEN <<>> ELSE ""]
  IN IF how = "absent" THEN [blank EXCEPT !.absent = {key}]
     ELSE [blank EXCEPT !.null = {key}]

LegacyArgs == [video_id |-> "v0", title |-> "t0", summary |-> "s0", language |-> "en",
               source_urls |-> "u0"]

ExternalInsert ==
  /\ last = NoCall
  /\ Len(rows) < MaxRows
  /\ Malformed(rows) = {}
  /\ \E now \in Times, key \in Keys, how \in {"absent", "null"} :
       rows' = Append(rows, DefectiveRow(nextId, SaveData(LegacyArgs, now), key, how))
  /\ nextId' = nextId + 1
  /\ saved' = NoSaved
  /\ UNCHANGED <<last, failed, pc, session, run>>

(* ------------------------- the script run, main ------------------------ *)
UiLanguages == {"ja", "en", "zh"}
DefaultLimit == 5

(* What the run knows: the button, the valid URLs, whether processing was  *)
(* set in this run, the fetched video data and how the button block ended. *)
NoRun == [pressed |-> FALSE, valid_urls |-> <<>>, set |-> FALSE, exit |-> "",
          video_data |-> <<>>]

(* st.session_state before the first run: no key is set. *)
NoSession == [keys |-> {}, processing |-> FALSE, generated_article |-> "", language |-> ""]

(* The lines of the text area: blank, a YouTube address, another address. *)
YoutubeUrls == {"youtube.com/a", "youtu.be/b"}
UrlInputs == { <<"">>, <<"example.com/x">>, <<"youtube.com/a">>,
               <<"youtu.be/b", "">>, <<"example.com/x", "youtube.com/a">>,
               <<"youtube.com/a", "youtu.be/b">> }

validate_urls(urls) ==
  SelectSeq(urls, LAMBDA url : url # "" /\ url \in YoutubeUrls)

(* DatabaseHandler.__init__: the credentials, then the probe. *)
DatabaseHandlerInit(config, probe) ==
  IF config # "ok" THEN "raise"
  ELSE IF ~verify_connection(probe) THEN "raise"
  ELSE "ok"

(* initialize_session_state: each missing key gets its default; the store  *)
(* is constructed last and its exception leaves the run.                   *)
initialize_session_state(s, config, probe) ==
  LET s1 == IF "generated_article" \in s.keys THEN s
            ELSE [s EXCEPT !.keys = @ \cup {"generated_article"}, !.generated_article = ""]
      s2 == IF "processing" \in s1.keys THEN s1
            ELSE [s1 EXCEPT !.keys = @ \cup {"processing"}, !.processing = FALSE]
      s3 == IF "language" \in s2.keys THEN s2
            ELSE [s2 EXCEPT !.keys = @ \cup {"language"}, !.language = "ja"]
  IN IF "db_handler" \in s3.keys THEN [session |-> s3, raised |-> FALSE]
     ELSE IF DatabaseHandlerInit(config, probe) = "ok"
          THEN [session |-> [s3 EXCEPT !.keys = @ \cup {"db_handler"}], raised |-> FALSE]
          ELSE [session |-> s3, raised |-> TRUE]

(* A button block without the finally clause. *)
main_finally_missing(s) == s

(* The finally clause of the button block. *)
main_finally(s) == [s EXCEPT !.processing = FALSE]

(* The arguments main passes to save_summary. *)
MainArgs(s) ==
  [video_id |-> "v1", title |-> "t1", summary |-> s.generated_article,
   language |-> s.language, source_urls |-> "u1"]

StoreIdle == UNCHANGED <<rows, nextId, last, saved, failed>>

(* A run starts: main calls initialize_session_state. *)
MainInit ==
  /\ pc \in {"idle", "done"}
  /\ \E config \in {"ok", "nourl", "nokey"}, probe \in ProbeResponses :
       LET r == initialize_session_state(session, config, probe)
       IN /\ session' = r.session
          /\ pc' = IF r.raised THEN "done" ELSE "widgets"
          /\ run' = [NoRun EXCEPT !.exit = IF r.raised THEN "init_failed" ELSE ""]
  /\ StoreIdle

(* The language selector, the text area and the button; the block of the   *)
(* button returns at once when no URL is valid.                            *)
MainWidgets ==
  /\ pc = "widgets"
  /\ \E language \in UiLanguages, urls \in UrlInputs, pressed \in BOOLEAN :
       /\ pressed => (~session.processing /\ Len(rows) < MaxRows)
       /\ session' = [session EXCEPT !.language = language]
       /\ run' = [run EXCEPT !.pressed = pressed,
                             !.valid_urls = IF pressed THEN validate_urls(urls) ELSE <<>>,
                             !.exit = IF ~pressed THEN "not_pressed"
                                      ELSE IF validate_urls(urls) = <<>> THEN "invalid"
                                      ELSE ""]
       /\ pc' = IF ~pressed THEN "sidebar"
                ELSE IF validate_urls(urls) = <<>> THEN "done"
                ELSE "try"
  /\ StoreIdle

(* try: the flag is set, then the two handlers are built from os.environ. *)
MainTry ==
  /\ pc = "try"
  /\ session' = [session EXCEPT !.processing = TRUE]
  /\ run' = [run EXCEPT !.set = TRUE]
  /\ \E keyError \in BOOLEAN : pc' = IF keyError THEN "except" ELSE "process"
  /\ StoreIdle

(* process_videos, then the check of the errors. *)
MainProcess ==
  /\ pc = "process"
  /\ \/ /\ pc' = "except"
        /\ UNCHANGED run
     \/ \E video_data \in [1..Len(run.valid_urls) -> {"ok", "error"}] :
          LET errors == SelectSeq(video_data, LAMBDA d : d = "error")
              allFailed == errors # <<>> /\ Len(errors) = Len(video_data)
          IN /\ run' = [run EXCEPT !.video_data = video_data,
                                   !.exit = IF allFailed THEN "all_errors" ELSE @]
             /\ pc' = IF allFailed THEN "finally" ELSE "generate"
  /\ UNCHANGED session
  /\ StoreIdle

MainGenerate ==
  /\ pc = "generate"
  /\ \/ /\ pc' = "except"
        /\ UNCHANGED session
     \/ /\ session' = [session EXCEPT !.generated_article = "a1"]
        /\ pc' = "save"
  /\ UNCHANGED run
  /\ StoreIdle

(* The save, when the first video has no error; extract_video_id may raise *)
(* before save_summary is called.                                          *)
MainSave ==
  /\ pc = "save"
  /\ IF Len(run.video_data) > 0 /\ run.video_data[1] # "error"
     THEN \/ /\ pc' = "except"
             /\ StoreIdle
          \/ \E now \in Times, probe \in ProbeResponses,
             resp \in InsertResponses, stored \in BOOLEAN :
               /\ SaveCall(MainArgs(session), now, probe, resp, stored)
               /\ pc' = IF last'.kind = "raise" THEN "except" ELSE "recommend"
     ELSE /\ pc' = "recommend"
          /\ StoreIdle
  /\ UNCHANGED <<session, run>>

MainRecommend ==
  /\ pc = "recommend"
  /\ \E raised \in BOOLEAN : pc' = IF raised THEN "except" ELSE "finally"
  /\ UNCHANGED <<session, run>>
  /\ StoreIdle

MainExcept ==
  /\ pc = "except"
  /\ run' = [run EXCEPT !.exit = "exception"]
  /\ pc' = "finally"
  /\ UNCHANGED session
  /\ StoreIdle

MainFinally ==
  /\ pc = "finally"
  /\ session' = main_finally(session)
  /\ run' = [run EXCEPT !.exit = IF @ = "" THEN "normal" ELSE @]
  /\ pc' = IF run.exit = "all_errors" THEN "done" ELSE "sidebar"
  /\ StoreIdle

(* display_recent_summaries in the sidebar, then the article is shown. *)
MainSidebar ==
  /\ pc = "sidebar"
  /\ \E probe \in ProbeResponses, resp \in SelectResponses :
       ByLanguageCall(session.language, DefaultLimit, probe, resp)
  /\ pc' = "done"
  /\ UNCHANGED <<rows, nextId, saved, session, run>>

Init ==
  /\ rows = <<>>
  /\ nextId = 1
  /\ last = NoCall
  /\ saved = NoSaved
  /\ failed = FALSE
  /\ pc = "idle"
  /\ session = NoSession
  /\ run = NoRun

Next == Verify \/ Save \/ Recent \/ ByLanguage \/ Resume \/ ExternalInsert

Spec == Init /\ [][Next]_vars


NextMain ==
  \/ MainInit \/ MainWidgets \/ MainTry \/ MainProcess \/ MainGenerate
  \/ MainSave \/ MainRecommend \/ MainExcept \/ MainFinally \/ MainSidebar

SpecMain == Init /\ [][NextMain]_vars

(* ============================== the claims ============================= *)
Reads == {"recent", "bylang"}
Answered(c) == c.probe = "data" /\ c.resp = "data"

(* The record the last successful save_summary stored, as a VideoSummary. *)
SavedRecord ==
  [id |-> saved.id, video_id |-> saved.args.video_id, title |-> saved.args.title,
   summary |-> saved.args.summary, language |-> saved.args.language,
   timestamp |-> saved.now, source_urls |-> saved.args.source_urls, none |-> {}]

(* C1, as stated: after a save_summary that returned True and no later     *)
(* write, get_recent_summaries(limit >= 1) answered by the backend returns *)
(* a non-empty list whose first element is the saved record, whatever     *)
(* well-formed records the table held before.                              *)
C1_Original ==
  (last.op = "recent" /\ Answered(last) /\ saved # NoSaved /\ Malformed(rows) = {})
    => (last.list # <<>> /\ last.list[1] = SavedRecord)

(* Every other row of the table has a timestamp, and an earlier one. *)
SavedIsNewest ==
  \A i \in 1..Len(rows) :
    rows[i].id # saved.id
      => (HasValue(rows[i], "timestamp") /\ fromisoformat(rows[i].timestamp) < saved.now)

(* C1, amended: the same, provided every record the table already held has *)
(* a timestamp strictly earlier than the one given to the new record.      *)
C1_Amended ==
  (last.op = "recent" /\ Answered(last) /\ saved # NoSaved /\ SavedIsNewest)
    => (last.list # <<>> /\ last.list[1] = SavedRecord)

C1_Witness ==
  /\ last.op = "recent" /\ Answered(last) /\ saved # NoSaved /\ SavedIsNewest
  /\ Len(rows) = 2 /\ saved.now > 0 /\ last.limit = 1
  /\ last.list = <<SavedRecord>>

(* C2: get_recent_summaries(limit = k) returns at most k records, each     *)
(* timestamp greater than or equal to the next one's.                      *)
C2_Recent_AtMostK_NonIncreasing ==
  last.op = "recent"
    => /\ Len(last.list) <= last.limit
       /\ \A i \in 1..(Len(last.list) - 1) :
            last.list[i].timestamp >= last.list[i + 1].timestamp

C2_Witness ==
  /\ last.op = "recent" /\ last.limit = 2 /\ Len(last.list) = 2
  /\ last.list[1].timestamp > last.list[2].timestamp

Returned(item) == \E i \in 1..Len(last.list) : last.list[i].id = item.id

Candidates ==
  {i \in 1..Len(last.before) :
     /\ WellFormed(last.before[i])
     /\ last.op = "bylang" => last.before[i].language = last.language}

(* C3, as stated: in both reads, records of equal timestamp come in        *)
(* descending id order, and of the records of equal timestamp the limit    *)
(* keeps those with the larger ids (here for tables of well-formed rows).  *)
C3_Original ==
  (last.op \in Reads /\ Malformed(last.before) = {})
    => /\ \A i, j \in 1..Len(last.list) :
            (i < j /\ last.list[i].timestamp = last.list[j].timestamp)
              => last.list[i].id > last.list[j].id
       /\ \A x \in Candidates : \A i \in 1..Len(last.list) :
            (~Returned(last.before[x])
             /\ fromisoformat(last.before[x].timestamp) = last.list[i].timestamp)
              => last.before[x].id < last.list[i].id

(* C3, amended: in both reads the records come in non-increasing timestamp *)
(* order and no well-formed record the limit left out has a later          *)
(* timestamp than a returned one; the order of records of equal timestamp, *)
(* and which of them the limit keeps, is not determined.                   *)
C3_Amended ==
  last.op \in Reads
    => /\ \A i, j \in 1..Len(last.list) :
            i < j => last.list[i].timestamp >= last.list[j].timestamp
       /\ \A x \in Candidates : \A i \in 1..Len(last.list) :
            ~Returned(last.before[x])
              => fromisoformat(last.before[x].timestamp) <= last.list[i].timestamp

C3_Witness ==
  /\ last.op = "bylang" /\ last.limit = 1 /\ Len(last.list) = 1
  /\ \E x \in Candidates :
       /\ ~Returned(last.before[x])
       /\ fromisoformat(last.before[x].timestamp) < last.list[1].timestamp

(* C4: every record get_summaries_by_language(lang) returns has language   *)
(* equal to lang, and when no stored record has that language the call     *)
(* returns an empty list without raising.                                  *)
C4_ExactLanguage ==
  last.op = "bylang"
    => /\ \A i \in 1..Len(last.list) :
            "language" \notin last.list[i].none /\ last.list[i].language = last.language
       /\ (\A i \in 1..Len(last.before) :
             ~(HasValue(last.before[i], "language")
               /\ last.before[i].language = last.language))
            => (last.kind = "return" /\ last.list = <<>>)

C4_Witness ==
  /\ last.op = "bylang" /\ last.language = "" /\ Len(last.list) = 1
  /\ \E i \in 1..Len(last.before) : last.before[i].language = "en"

(* C5, as stated: a save_summary call after which no new record is stored  *)
(* ends by raising; it never returns normally without the record stored.   *)
C5_WriteFailuresPropagate ==
  (last.op = "save" /\ rows = last.before) => last.kind = "raise"

(* C6: when the probe of save_summary fails the call raises, sends no      *)
(* insert and leaves the table as it was; the probe is the first request.  *)
C6_ProbeBeforeWrite ==
  last.op = "save"
    => /\ last.issued[1] = "probe"
       /\ last.probe # "data"
            => (last.kind = "raise" /\ ~Sent(last, "insert") /\ rows = last.before)

C6_Witness ==
  /\ last.op = "save" /\ last.probe = "raise" /\ last.before # <<>>
  /\ last.kind = "raise" /\ rows = last.before

(* C7: the two reads never raise, leave the table as it was, and return    *)
(* an empty list when the probe fails, the query fails or the table is     *)
(* empty.                                                                  *)
C7_ReadsNeverRaise ==
  last.op \in Reads
    => /\ last.kind = "return"
       /\ rows = last.before
       /\ (last.probe # "data" \/ last.resp # "data" \/ last.before = <<>>)
            => last.list = <<>>

C7_Witness ==
  /\ last.op = "recent" /\ last.probe = "data" /\ last.resp = "raise"
  /\ last.before # <<>> /\ last.kind = "return" /\ last.list = <<>>

(* C8: whether or not an earlier call failed, every call probes afresh     *)
(* and succeeds when the backend answers: verify_connection returns True,  *)
(* save_summary returns True with the record stored, and a read returns    *)
(* the well-formed rows it was sent.                                       *)
C8_NoBrokenState ==
  /\ last.op # "none" => last.issued[1] = "probe"
  /\ (last.op = "verify" /\ last.probe = "data") => last.ok
  /\ (last.op = "save" /\ last.probe = "data" /\ last.resp = "rows")
       => /\ last.kind = "return" /\ last.ok
          /\ Len(rows) = Len(last.before) + 1
          /\ rows[Len(rows)] = StoredRow(saved.id, SaveData(last.args, last.now))
  /\ (last.op \in Reads /\ Answered(last)
      /\ \A i \in 1..Len(last.data) : WellFormed(last.data[i]))
       => /\ last.kind = "return"
          /\ Len(last.list) = Len(last.data)
          /\ \A i \in 1..Len(last.list) : last.list[i].id = last.data[i].id

C8_Witness ==
  /\ last.afterFailure
  /\ last.op = "save" /\ last.probe = "data" /\ last.resp = "rows"
  /\ last.kind = "return" /\ last.ok /\ Len(rows) = Len(last.before) + 1

(* C9, as stated: a read leaves out every row in which a required field is *)
(* missing, the key absent or the value null, and returns every            *)
(* well-formed row of the response in the same order.                      *)
C9_MalformedRowsSkipped ==
  (last.op \in Reads /\ Answered(last))
    => LET good == SelectSeq(last.data, WellFormed)
       IN last.list = [i \in 1..Len(good) |-> VideoSummary(good[i])]

(* C10: at the end of a run, once the store is in the session, processing  *)
(* is False; a run that set it has reset it, and the return for no valid   *)
(* URL comes before it is set.                                             *)
C10_ProcessingReset ==
  pc = "done"
    => /\ "db_handler" \in session.keys => ~session.processing
       /\ run.set => ~session.processing
       /\ run.exit = "invalid" => ~run.set

C10_Witness ==
  /\ pc = "done" /\ run.set /\ run.exit = "all_errors"
  /\ "db_handler" \in session.keys /\ ~session.processing

====
